---------------------------- MODULE Spec2Model ----------------------------
(***************************************************************************)
(* A model of the gym-stats transformation pipeline of server.go: the log  *)
(* file locator (findLatestCSV, findCSVFilesInRange), the row parser and   *)
(* timestamp normalizer (processCSVFile), the aggregator                   *)
(* (convertCSVFilesToJSON) and the two request handlers that write the     *)
(* snapshot gym-data.json.                                                 *)
(*                                                                         *)
(* Text is modelled as sequences of one-character strings, so that parsing *)
(* and formatting are computed character by character as the Go library   *)
(* does, and string comparison is the byte-wise comparison of Go.          *)
(***************************************************************************)
EXTENDS Integers, Sequences, FiniteSets, TLC

VARIABLES
    dir,            \* the working directory: a set of directory entries
    tzLoaded,       \* whether time.LoadLocation("Europe/Tallinn") succeeds
    timestamp,      \* processCSVFile: record[timestampIdx], a text
    isoTimestamp,   \* processCSVFile: the rendered x of the row, or NoText
    fromDate,       \* findCSVFilesInRange: argument fromDate, a text
    toDate,         \* findCSVFilesInRange: argument toDate, a text
    filteredFiles,  \* findCSVFilesInRange: what it returned, or NoValue
    latestFile,     \* findLatestCSV: what it returned, or NoValue
    sortStable,     \* whether the build's sort.Slice keeps ties of long slices
    csvFiles,       \* convertCSVFilesToJSON: argument csvFiles
    datasets,       \* convertCSVFilesToJSON: what it returned, or NoValue
    dataPoints,     \* the slice handed to sort.Slice at line 125
    sortedPoints,   \* that slice once sorted, or NoValue
    snapshot,       \* gym-data.json: whether it exists, and its bytes
    handler,        \* the local state of each running request handler
    issued          \* the number of requests received so far

envVars  == <<dir, tzLoaded, sortStable>>
normVars == <<timestamp, isoTimestamp>>
locVars  == <<fromDate, toDate, filteredFiles, latestFile>>
convVars == <<csvFiles, datasets>>
sortVars == <<dataPoints, sortedPoints>>
pipeVars == <<snapshot, handler, issued>>

vars == <<envVars, normVars, locVars, convVars, sortVars, pipeVars>>

\* A result variable before the call has returned: a record for the calls
\* that return records, the empty text for the rendered x.
NoValue == [none |-> TRUE]

NoText == <<>>

\* The value of a variable the specification at hand does not use.
NormIdle == timestamp = <<>> /\ isoTimestamp = NoText

LocIdle ==
    /\ fromDate = <<>> /\ toDate = <<>>
    /\ filteredFiles = NoValue /\ latestFile = NoValue

ConvIdle == csvFiles = <<>> /\ datasets = NoValue

SortIdle == dataPoints = <<>> /\ sortedPoints = NoValue

PipeIdle == snapshot = NoValue /\ handler = <<>> /\ issued = 0

(***************************************************************************)
(* Text.                                                                   *)
(***************************************************************************)

\* The characters the model uses, in ascending byte order.
Ascii ==
    <<" ", "+", ",", "-", ".", "/", "0", "1", "2", "3", "4", "5", "6", "7",
      "8", "9", ":", "H", "M", "T", "_", "a", "b", "c", "d", "e", "f", "g",
      "h", "i", "j", "k", "l", "m", "n", "o", "p", "q", "r", "s", "t", "u",
      "v", "w", "x", "y", "z">>

Ord(c) == CHOOSE i \in 1..Len(Ascii) : Ascii[i] = c

DigitChars == <<"0", "1", "2", "3", "4", "5", "6", "7", "8", "9">>

IsDigit(c) == \E i \in 1..10 : DigitChars[i] = c

DigitVal(c) == (CHOOSE i \in 1..10 : DigitChars[i] = c) - 1

\* s[i], or the empty text past the end (Go code tests the length first).
At(s, i) == IF i \in 1..Len(s) THEN s[i] ELSE ""

\* The number written by the w digits of s from position i, or -1 when one
\* of them is not a digit (time.getnum with fixed width, time.atoi).
RECURSIVE Num(_, _, _)
Num(s, i, w) ==
    IF w = 0 THEN 0
    ELSE IF ~IsDigit(At(s, i + w - 1)) THEN -1
    ELSE LET hi == Num(s, i, w - 1)
         IN  IF hi < 0 THEN -1 ELSE 10 * hi + DigitVal(s[i + w - 1])

\* n written with w digits, zero padded (time.appendInt).
RECURSIVE Pad(_, _)
Pad(n, w) == IF w = 0 THEN <<>> ELSE Append(Pad(n \div 10, w - 1), DigitChars[(n % 10) + 1])

\* Go's string comparison a < b: byte-wise lexicographic.
RECURSIVE LessFrom(_, _, _)
LessFrom(a, b, i) ==
    IF i > Len(b) THEN FALSE
    ELSE IF i > Len(a) THEN TRUE
    ELSE IF a[i] = b[i] THEN LessFrom(a, b, i + 1)
    ELSE Ord(a[i]) < Ord(b[i])

StrLess(a, b) == LessFrom(a, b, 1)

\* os.Stat(name), os.Open(name): the directory entry of that name.
Entry(d, name) == CHOOSE e \in d : e.name = name

(***************************************************************************)
(* Calendar arithmetic of package time: days since 1970-01-01 of a civil   *)
(* date and back, seconds since the epoch of a UTC wall clock.             *)
(***************************************************************************)

IsLeap(y) == y % 4 = 0 /\ (y % 100 # 0 \/ y % 400 = 0)

DaysIn(m, y) ==
    IF m = 2 THEN (IF IsLeap(y) THEN 29 ELSE 28)
    ELSE IF m \in {4, 6, 9, 11} THEN 30 ELSE 31

\* Days from 1970-01-01 to y-m-d (proleptic Gregorian); d may exceed the
\* month's length, as time.Date normalises it.
DaysFromCivil(y, m, d) ==
    LET yy  == IF m <= 2 THEN y - 1 ELSE y
        era == yy \div 400
        yoe == yy - era * 400
        mp  == (m + 9) % 12
        doy == (153 * mp + 2) \div 5 + d - 1
        doe == yoe * 365 + yoe \div 4 - yoe \div 100 + doy
    IN  era * 146097 + doe - 719468

CivilFromDays(z) ==
    LET zz  == z + 719468
        era == zz \div 146097
        doe == zz - era * 146097
        yoe == (doe - doe \div 1460 + doe \div 36524 - doe \div 146096) \div 365
        doy == doe - (365 * yoe + yoe \div 4 - yoe \div 100)
        mp  == (5 * doy + 2) \div 153
        d   == doy - (153 * mp + 2) \div 5 + 1
        m   == IF mp < 10 THEN mp + 3 ELSE mp - 9
        y   == yoe + era * 400 + (IF m <= 2 THEN 1 ELSE 0)
    IN  [year |-> y, month |-> m, day |-> d]

SecondsPerDay == 24 * 3600

\* Seconds since the epoch of the wall clock y-m-d h:mi:s read as UTC.
UnixOf(y, m, d, h, mi, s) ==
    DaysFromCivil(y, m, d) * SecondsPerDay + h * 3600 + mi * 60 + s

\* The wall-clock fields of `unix` seconds shifted by `offset` (Time.date,
\* Time.clock on a Time whose zone offset is `offset`).
Clock(c, rem, offset) ==
    [year |-> c.year, month |-> c.month, day |-> c.day,
     hour |-> rem \div 3600, minute |-> (rem % 3600) \div 60,
     second |-> rem % 60, offset |-> offset]

Fields(unix, offset) ==
    Clock(CivilFromDays((unix + offset) \div SecondsPerDay),
          (unix + offset) % SecondsPerDay, offset)

(***************************************************************************)
(* Time zones.  Europe/Tallinn is EET (UTC+2) with EEST (UTC+3) from the   *)
(* last Sunday of March 01:00 UTC to the last Sunday of October 01:00 UTC. *)
(* A zone lookup returns the offset in force at an instant and the         *)
(* interval [start, end) of instants in which it is in force, as           *)
(* time.Location.lookup does.                                              *)
(***************************************************************************)

\* 0 = Sunday; 1970-01-01 was a Thursday.
Weekday(days) == (days + 4) % 7

\* The last Sunday of a month of 31 days.
LastSunday(y, m) == 31 - Weekday(DaysFromCivil(y, m, 31))

DSTStart(y) == UnixOf(y, 3, LastSunday(y, 3), 1, 0, 0)

DSTEnd(y) == UnixOf(y, 10, LastSunday(y, 10), 1, 0, 0)

EET == 2 * 3600

EEST == 3 * 3600

\* The zone in force at `sec`, a second of year y whose transitions are at
\* `summer` and `winter`.
ZoneOfYear(sec, y, summer, winter) ==
    IF sec < summer
      THEN [offset |-> EET, start |-> DSTEnd(y - 1), end |-> summer]
    ELSE IF sec < winter
      THEN [offset |-> EEST, start |-> summer, end |-> winter]
    ELSE [offset |-> EET, start |-> winter, end |-> DSTStart(y + 1)]

YearLookup(sec, y) == ZoneOfYear(sec, y, DSTStart(y), DSTEnd(y))

TallinnLookup(sec) == YearLookup(sec, CivilFromDays(sec \div SecondsPerDay).year)

\* time.LoadLocation("Europe/Tallinn"), or on failure the fallback
\* time.FixedZone("EET", 2*3600).
LoadLocation(loaded) == IF loaded THEN "Europe/Tallinn" ELSE "EET"

Lookup(loc, sec) ==
    IF loc = "Europe/Tallinn" THEN TallinnLookup(sec)
    ELSE [offset |-> EET, start |-> sec, end |-> sec + 1]

\* t.In(loc): the wall clock of the instant in the zone.
In(unix, loc) == Fields(unix, Lookup(loc, unix).offset)

\* time.Date(y, m, d, h, mi, s, 0, loc): the instant of a wall clock in the
\* zone.  The wall clock is first read as UTC and looked up; when the
\* instant that offset gives lies outside the offset's interval, the offset
\* in force at that instant is used instead.
DateOffset(unix, z, loc) ==
    IF unix - z.offset < z.start \/ unix - z.offset >= z.end
      THEN Lookup(loc, unix - z.offset).offset
      ELSE z.offset

DateOfUnix(unix, loc) == unix - DateOffset(unix, Lookup(loc, unix), loc)

Date(y, m, d, h, mi, s, loc) == DateOfUnix(UnixOf(y, m, d, h, mi, s), loc)

\* t.Format("2006-01-02T15:04:05-07:00") of a Time with these fields.
Format(f) ==
    LET abs == IF f.offset < 0 THEN -f.offset ELSE f.offset
    IN  Pad(f.year, 4) \o <<"-">> \o Pad(f.month, 2) \o <<"-">> \o Pad(f.day, 2)
        \o <<"T">> \o Pad(f.hour, 2) \o <<":">> \o Pad(f.minute, 2)
        \o <<":">> \o Pad(f.second, 2)
        \o <<IF f.offset < 0 THEN "-" ELSE "+">>
        \o Pad(abs \div 3600, 2) \o <<":">> \o Pad((abs % 3600) \div 60, 2)

(***************************************************************************)
(* time.Parse.                                                             *)
(***************************************************************************)

AllDigits(s, i) == \A k \in i..Len(s) : IsDigit(s[k])

\* time.Parse("2006-01-02 15:04:05", s).  The hour is read by getnum
\* without fixed width (one or two digits); a fractional second after the
\* seconds is accepted and dropped; anything else left over is an error.
ParseTimestamp(s) ==
    LET year == Num(s, 1, 4)
        mon  == Num(s, 6, 2)
        day  == Num(s, 9, 2)
        hw   == IF IsDigit(At(s, 13)) THEN 2 ELSE 1
        hour == Num(s, 12, hw)
        p    == 12 + hw
        min  == Num(s, p + 1, 2)
        sec  == Num(s, p + 4, 2)
        q    == p + 6
        rest == \/ Len(s) = q - 1
                \/ /\ Len(s) >= q + 1
                   /\ s[q] \in {".", ","}
                   /\ AllDigits(s, q + 1)
        ok   == /\ year >= 0 /\ At(s, 5) = "-"
                /\ mon >= 1 /\ mon <= 12 /\ At(s, 8) = "-"
                /\ day >= 0 /\ At(s, 11) = " "
                /\ hour >= 0 /\ hour < 24 /\ At(s, p) = ":"
                /\ min >= 0 /\ min < 60 /\ At(s, p + 3) = ":"
                /\ sec >= 0 /\ sec < 60
                /\ rest
                /\ day >= 1 /\ day <= DaysIn(mon, year)
    IN  [ok |-> ok, year |-> year, month |-> mon, day |-> day,
         hour |-> hour, minute |-> min, second |-> sec]

(***************************************************************************)
(* The timestamp normalizer of processCSVFile.                             *)
(***************************************************************************)

\* roundedMinute := (minute / 2) * 2
RoundedMinute(minute) == (minute \div 2) * 2

\* time.Date(tallinnTime.Year(), tallinnTime.Month(), tallinnTime.Day(),
\*           tallinnTime.Hour(), roundedMinute, 0, 0, tallinnTZ)
RoundedTime(tallinnTime, tallinnTZ) ==
    Date(tallinnTime.year, tallinnTime.month, tallinnTime.day,
         tallinnTime.hour, RoundedMinute(tallinnTime.minute), 0, tallinnTZ)

\* The rendered x of a parsed timestamp t: read as UTC, converted to the
\* zone, rebuilt by time.Date with the rounded minute and zero seconds,
\* then formatted.
IsoTimestamp(t, loaded) ==
    LET utcTime   == UnixOf(t.year, t.month, t.day, t.hour, t.minute, t.second)
        tallinnTZ == LoadLocation(loaded)
    IN  Format(In(RoundedTime(In(utcTime, tallinnTZ), tallinnTZ), tallinnTZ))

(***************************************************************************)
(* The row parser.  A log file holds CSV records as csv.Reader returns     *)
(* them: each a record [err, fields], err saying that reader.Read fails on *)
(* it, fields being its fields.  The first record is the header.  Columns  *)
(* are numbered from 1, and 0 stands for the -1 of a column not found.     *)
(***************************************************************************)

Record(fields) == [err |-> FALSE, fields |-> fields]

ReadError == [err |-> TRUE, fields |-> <<>>]

ColTimestamp == <<"t", "i", "m", "e", "s", "t", "a", "m", "p">>

ColLocationId == <<"l", "o", "c", "a", "t", "i", "o", "n", "_", "i", "d">>

ColLocationName == <<"l", "o", "c", "a", "t", "i", "o", "n", "_", "n", "a", "m", "e">>

ColUserCount == <<"u", "s", "e", "r", "_", "c", "o", "u", "n", "t">>

ColStatus == <<"s", "t", "a", "t", "u", "s">>

ColResponse == <<"r", "e", "s", "p", "o", "n", "s", "e">>

Success == <<"s", "u", "c", "c", "e", "s", "s">>

\* The index the header loop leaves for a column name: the last header
\* field equal to it, or 0.
ColumnIdx(headers, name) ==
    LET at == {i \in 1..Len(headers) : headers[i] = name}
    IN  IF at = {} THEN 0 ELSE CHOOSE i \in at : \A j \in at : j <= i

max2(a, b) == IF a > b THEN a ELSE b

\* strconv.Atoi(s): an optional sign and at least one digit.
Atoi(s) ==
    LET signed == At(s, 1) \in {"+", "-"}
        body   == IF signed THEN Tail(s) ELSE s
        ok     == Len(body) >= 1 /\ AllDigits(body, 1)
        n      == IF ok THEN Num(body, 1, Len(body)) ELSE 0
    IN  [ok |-> ok, value |-> IF At(s, 1) = "-" THEN -n ELSE n]

\* dataByLocation[locationName] = append(dataByLocation[locationName], p)
AppendPoint(dataByLocation, locationName, p) ==
    [l \in DOMAIN dataByLocation \cup {locationName} |->
        IF l = locationName
          THEN Append(IF l \in DOMAIN dataByLocation THEN dataByLocation[l] ELSE <<>>, p)
          ELSE dataByLocation[l]]

\* A row loop that skips only the rows whose status is not success or whose
\* user count does not parse, and renders an unparsable timestamp as is.
ProcessRecordAnyTimestamp(line, idx, dataByLocation, loaded) ==
    LET record == line.fields IN
    IF line.err THEN dataByLocation
    ELSE IF Len(record) < max2(max2(idx.timestamp, idx.locationName),
                               max2(idx.userCount, idx.status))
      THEN dataByLocation
    ELSE IF record[idx.status] # Success THEN dataByLocation
    ELSE IF ~Atoi(record[idx.userCount]).ok THEN dataByLocation
    ELSE AppendPoint(dataByLocation, record[idx.locationName],
                     [X |-> IF ParseTimestamp(record[idx.timestamp]).ok
                              THEN IsoTimestamp(ParseTimestamp(record[idx.timestamp]), loaded)
                              ELSE record[idx.timestamp],
                      Y |-> Atoi(record[idx.userCount]).value])

\* One pass of the row loop of processCSVFile on a record.
ProcessRecord(line, idx, dataByLocation, loaded) ==
    LET record    == line.fields
        t         == ParseTimestamp(record[idx.timestamp])
        userCount == Atoi(record[idx.userCount])
    IN  IF line.err THEN dataByLocation
        ELSE IF Len(record) < max2(max2(idx.timestamp, idx.locationName),
                                   max2(idx.userCount, idx.status))
          THEN dataByLocation
        ELSE IF record[idx.status] # Success THEN dataByLocation
        ELSE IF ~t.ok THEN dataByLocation
        ELSE IF ~userCount.ok THEN dataByLocation
        ELSE AppendPoint(dataByLocation, record[idx.locationName],
                         [X |-> IsoTimestamp(t, loaded), Y |-> userCount.value])

\* The row loop of processCSVFile from record i on.
RECURSIVE ProcessRecords(_, _, _, _, _)
ProcessRecords(lines, i, idx, dataByLocation, loaded) ==
    IF i > Len(lines) THEN dataByLocation
    ELSE ProcessRecords(lines, i + 1, idx,
                        ProcessRecord(lines[i], idx, dataByLocation, loaded), loaded)

\* processCSVFile(csvFile, dataByLocation) in directory d: the error, named
\* by its kind, and the map as the call leaves it.
ProcessCSVFile(d, csvFile, dataByLocation, loaded) ==
    IF ~\E e \in d : e.name = csvFile /\ e.openOk
      THEN [err |-> "IOError", data |-> dataByLocation]
    ELSE LET lines   == Entry(d, csvFile).lines
             headers == lines[1].fields
             idx     == [timestamp    |-> ColumnIdx(headers, ColTimestamp),
                         locationName |-> ColumnIdx(headers, ColLocationName),
                         userCount    |-> ColumnIdx(headers, ColUserCount),
                         status       |-> ColumnIdx(headers, ColStatus)]
         IN  IF Len(lines) = 0 \/ lines[1].err
               THEN [err |-> "MalformedHeader", data |-> dataByLocation]
             ELSE IF idx.timestamp = 0 \/ idx.locationName = 0
                     \/ idx.userCount = 0 \/ idx.status = 0
               THEN [err |-> "MissingColumns", data |-> dataByLocation]
             ELSE [err |-> "nil",
                   data |-> ProcessRecords(lines, 2, idx, dataByLocation, loaded)]

(***************************************************************************)
(* The aggregator.                                                         *)
(***************************************************************************)

\* sort.Slice sorts up to this many elements by insertion sort, which is
\* stable; the order it leaves equal elements of a longer slice in is not
\* specified.
InsertionSortLimit == 12

\* insertionSort: x is moved left past every element it is less than.
RECURSIVE InsertLeft(_, _, _)
InsertLeft(sorted, j, x) ==
    IF j > 0 /\ StrLess(x[1], sorted[j][1])
      THEN InsertLeft(sorted, j - 1, x)
      ELSE SubSeq(sorted, 1, j) \o <<x>> \o SubSeq(sorted, j + 1, Len(sorted))

RECURSIVE InsertionSort(_, _)
InsertionSort(keyed, n) ==
    IF n = 0 THEN <<>>
    ELSE LET sorted == InsertionSort(keyed, n - 1)
         IN  InsertLeft(sorted, n - 1, keyed[n])

Reverse(s) == [i \in 1..Len(s) |-> s[Len(s) + 1 - i]]

\* sort.Slice on a slice of <<key, element>> pairs with less comparing the
\* keys.  `stable` says whether the build's sort keeps equal elements of a
\* slice longer than InsertionSortLimit in their order.
SortSlice(keyed, stable) ==
    IF Len(keyed) <= InsertionSortLimit \/ stable
      THEN InsertionSort(keyed, Len(keyed))
      ELSE InsertionSort(Reverse(keyed), Len(keyed))

\* sort.Slice(dataPoints, func(i, j) { dataPoints[i].X < dataPoints[j].X })
SortDataPoints(points, stable) ==
    LET sorted == SortSlice([i \in 1..Len(points) |->
                                <<points[i].X, points[i]>>], stable)
    IN  [i \in 1..Len(sorted) |-> sorted[i][2]]

\* The Dataset list left in the order the map was ranged over.
UnsortedDatasets(dsets, stable) == dsets

\* sort.Slice(datasets, func(i, j) { datasets[i].Label < datasets[j].Label })
SortDatasets(dsets, stable) ==
    LET sorted == SortSlice([i \in 1..Len(dsets) |->
                                <<dsets[i].Label, dsets[i]>>], stable)
    IN  [i \in 1..Len(sorted) |-> sorted[i][2]]

\* A file loop that passes over a file it cannot process.
RECURSIVE ProcessFilesSkipping(_, _, _, _, _)
ProcessFilesSkipping(d, files, i, dataByLocation, loaded) ==
    IF i > Len(files) THEN [err |-> "nil", data |-> dataByLocation]
    ELSE ProcessFilesSkipping(d, files, i + 1,
                              ProcessCSVFile(d, files[i], dataByLocation, loaded).data,
                              loaded)

\* The file loop of convertCSVFilesToJSON from file i on.
RECURSIVE ProcessFiles(_, _, _, _, _)
ProcessFiles(d, files, i, dataByLocation, loaded) ==
    IF i > Len(files) THEN [err |-> "nil", data |-> dataByLocation]
    ELSE LET r == ProcessCSVFile(d, files[i], dataByLocation, loaded)
         IN  IF r.err # "nil" THEN r
             ELSE ProcessFiles(d, files, i + 1, r.data, loaded)

\* The orders in which `range dataByLocation` may visit the keys S.
RangeOrders(S) ==
    {o \in [1..Cardinality(S) -> S] : \A l \in S : \E i \in DOMAIN o : o[i] = l}

\* Lines 116-140 of convertCSVFilesToJSON: r is what the file loop left,
\* and the map is ranged over in the order `order`.
Aggregate(r, order, stable) ==
    IF r.err # "nil" THEN [err |-> r.err, datasets |-> <<>>]
    ELSE [err |-> "nil",
          datasets |->
            SortDatasets([i \in 1..Len(order) |->
                             [Label |-> order[i],
                              Data  |-> SortDataPoints(r.data[order[i]], stable)]],
                         stable)]

\* convertCSVFilesToJSON(csvFiles) in directory d.
ConvertCSVFilesToJSON(d, files, loaded, order, stable) ==
    Aggregate(ProcessFiles(d, files, 1, <<>>, loaded), order, stable)

(***************************************************************************)
(* The normalizer alone, on one timestamp text.                            *)
(***************************************************************************)

Stamp(y, m, d, h, mi, s) ==
    Pad(y, 4) \o <<"-">> \o Pad(m, 2) \o <<"-">> \o Pad(d, 2) \o <<" ">>
    \o Pad(h, 2) \o <<":">> \o Pad(mi, 2) \o <<":">> \o Pad(s, 2)

\* Days around both transitions of 2024, a leap day, a year's end.
NormDays ==
    {<<2024, 3, 30>>, <<2024, 3, 31>>, <<2024, 10, 26>>, <<2024, 10, 27>>,
     <<2024, 2, 29>>, <<2023, 12, 31>>}

NormSeconds == {0, 47, 59}

MalformedStamps ==
    {<<>>,
     Pad(2024, 4) \o <<"/">> \o Pad(1, 2) \o <<"/">> \o Pad(1, 2) \o <<" ">>
        \o Pad(10, 2) \o <<":">> \o Pad(0, 2) \o <<":">> \o Pad(0, 2),
     Stamp(2024, 13, 1, 10, 0, 0),
     Stamp(2023, 2, 29, 10, 0, 0),
     Stamp(2024, 1, 1, 24, 0, 0),
     Stamp(2024, 1, 1, 10, 0, 0) \o <<"x">>}

NormStamps ==
    { Stamp(d[1], d[2], d[3], h, mi, s) :
        d \in NormDays, h \in 0..23, mi \in 0..59, s \in NormSeconds }
    \cup { Stamp(2024, 10, 27, 0, 3, 47) \o <<".", "5">> }
    \cup { Pad(2024, 4) \o <<"-", "1", "0", "-", "2", "7", " ", "0", ":", "3", "0", ":", "0", "0">> }

InitNorm ==
    /\ timestamp \in NormStamps \cup MalformedStamps
    /\ tzLoaded \in BOOLEAN
    /\ isoTimestamp = NoText
    /\ dir = {}
    /\ sortStable = TRUE
    /\ LocIdle /\ ConvIdle /\ SortIdle /\ PipeIdle

\* processCSVFile lines 202-229 on the row's timestamp; a row whose
\* timestamp does not parse is skipped.
Normalize ==
    /\ isoTimestamp = NoText
    /\ ParseTimestamp(timestamp).ok
    /\ isoTimestamp' = IsoTimestamp(ParseTimestamp(timestamp), tzLoaded)
    /\ UNCHANGED <<timestamp, envVars, locVars, convVars, sortVars, pipeVars>>

NextNorm == Normalize

SpecNorm == InitNorm /\ [][NextNorm]_vars

\* The instant a rendered x denotes: its wall clock less its UTC offset.
InstantOfX(x) ==
    LET off == Num(x, 21, 2) * 3600 + Num(x, 24, 2) * 60
    IN  UnixOf(Num(x, 1, 4), Num(x, 6, 2), Num(x, 9, 2),
               Num(x, 12, 2), Num(x, 15, 2), Num(x, 18, 2))
        - (IF x[20] = "-" THEN -off ELSE off)

\* The recorded UTC instant of a timestamp text that parses.
RecordedInstant(s) ==
    LET t == ParseTimestamp(s)
    IN  UnixOf(t.year, t.month, t.day, t.hour, t.minute, t.second)

\* The rendered x has the local date and hour of the converted time, the
\* local minute rounded down to an even minute, and seconds 00.
XFieldsBucketed ==
    isoTimestamp # NoText =>
        LET local == In(RecordedInstant(timestamp), LoadLocation(tzLoaded))
        IN  /\ Num(isoTimestamp, 1, 4) = local.year
            /\ Num(isoTimestamp, 6, 2) = local.month
            /\ Num(isoTimestamp, 9, 2) = local.day
            /\ Num(isoTimestamp, 12, 2) = local.hour
            /\ Num(isoTimestamp, 15, 2) = 2 * (local.minute \div 2)
            /\ Num(isoTimestamp, 18, 2) = 0

\* The instant x denotes is at or before the recorded instant, by less than
\* two minutes.
XInstantBucketed ==
    isoTimestamp # NoText =>
        LET d == RecordedInstant(timestamp) - InstantOfX(isoTimestamp)
        IN  0 <= d /\ d < 120

\* C10: for every valid timestamp the rendered x has minute 2*floor(m/2) of
\* the local minute m, seconds 00 and the local date and hour of the
\* converted time, and the instant x denotes is at or before the recorded
\* UTC instant and less than 2 minutes earlier, daylight-saving transition
\* hours included.
C10_BucketedInstant == XFieldsBucketed /\ XInstantBucketed

(***************************************************************************)
(* The log file locator.  A directory entry is a record: its name, whether *)
(* os.Stat and os.Open succeed on it, its modification time, and, of a log *)
(* file, the text lines it holds.                                          *)
(***************************************************************************)

LogPrefix == <<"g", "y", "m", "-", "s", "t", "a", "t", "s", "-">>

LogSuffix == <<".", "c", "s", "v">>

LogName(stem) == LogPrefix \o stem \o LogSuffix

\* Whether a name matches the pattern gym-stats-*.csv.
MatchesPattern(name) ==
    /\ Len(name) >= Len(LogPrefix) + Len(LogSuffix)
    /\ SubSeq(name, 1, Len(LogPrefix)) = LogPrefix
    /\ SubSeq(name, Len(name) - Len(LogSuffix) + 1, Len(name)) = LogSuffix

RECURSIVE SortNames(_)
SortNames(S) ==
    IF S = {} THEN <<>>
    ELSE LET lo == CHOOSE x \in S : \A y \in S \ {x} : StrLess(x, y)
         IN  <<lo>> \o SortNames(S \ {lo})

\* filepath.Glob("gym-stats-*.csv"): the matching names, sorted.
Glob(d) == SortNames({e.name : e \in {e \in d : MatchesPattern(e.name)}})

ValidDate(y, m, d) == y >= 0 /\ m >= 1 /\ m <= 12 /\ d >= 1 /\ d <= DaysIn(m, y)

\* time.Parse("2006-01-02", s)
ParseDate(s) ==
    LET y == Num(s, 1, 4)
        m == Num(s, 6, 2)
        d == Num(s, 9, 2)
        ok == Len(s) = 10 /\ s[5] = "-" /\ s[8] = "-" /\ ValidDate(y, m, d)
    IN  [ok |-> ok, unix |-> IF ok THEN UnixOf(y, m, d, 0, 0, 0) ELSE 0]

\* time.Parse("20060102", s)
ParseCompactDate(s) ==
    LET y == Num(s, 1, 4)
        m == Num(s, 5, 2)
        d == Num(s, 7, 2)
        ok == Len(s) = 8 /\ ValidDate(y, m, d)
    IN  [ok |-> ok, unix |-> IF ok THEN UnixOf(y, m, d, 0, 0, 0) ELSE 0]

\* t.AddDate(0, 0, 1) of a UTC midnight.
AddDay(unix) ==
    LET c == CivilFromDays(unix \div SecondsPerDay)
    IN  UnixOf(c.year, c.month, c.day + 1, 0, 0, 0)

\* A range test that leaves the `to` day out.
InRangeExclusiveEnd(fileDate, from, to) ==
    (fileDate = from \/ fileDate > from) /\ fileDate < to

\* (fileDate.Equal(from) || fileDate.After(from)) &&
\* (fileDate.Equal(to) || fileDate.Before(to.AddDate(0, 0, 1)))
InRange(fileDate, from, to) ==
    /\ (fileDate = from \/ fileDate > from)
    /\ (fileDate = to \/ fileDate < AddDay(to))

\* The loop body of findCSVFilesInRange: whether the file is kept.
KeepsFile(basename, from, to) ==
    /\ ~(Len(basename) < 20)
    /\ LET fileDate == ParseCompactDate(SubSeq(basename, 11, 18))
       IN  fileDate.ok /\ InRange(fileDate.unix, from, to)

\* findCSVFilesInRange(fromDate, toDate) in directory d.  The error is named
\* by its kind: "NotFound" is "no CSV files found matching gym-stats-*.csv",
\* "InvalidDateFormat" is "invalid from/to date format".
FindCSVFilesInRange(d, from, to) ==
    LET files == Glob(d)
    IN  IF Len(files) = 0
          THEN [err |-> "NotFound", files |-> <<>>]
        ELSE IF ~ParseDate(from).ok \/ ~ParseDate(to).ok
          THEN [err |-> "InvalidDateFormat", files |-> <<>>]
        ELSE [err |-> "nil",
              files |-> SelectSeq(files,
                  LAMBDA f : KeepsFile(f, ParseDate(from).unix, ParseDate(to).unix))]

\* The zero time.Time, which precedes every modification time (those are
\* counted in ticks from 0).
ZeroTime == -1

\* The loop of findLatestCSV from file i on.
RECURSIVE LatestLoop(_, _, _, _, _)
LatestLoop(d, files, i, latestFile_, latestTime) ==
    IF i > Len(files) THEN latestFile_
    ELSE LET info == Entry(d, files[i])
         IN  IF ~info.statOk
               THEN LatestLoop(d, files, i + 1, latestFile_, latestTime)
             ELSE IF info.modTime > latestTime
               THEN LatestLoop(d, files, i + 1, files[i], info.modTime)
             ELSE LatestLoop(d, files, i + 1, latestFile_, latestTime)

\* findLatestCSV() in directory d.
FindLatestCSV(d) ==
    LET files == Glob(d)
    IN  IF Len(files) = 0
          THEN [err |-> "NotFound", file |-> <<>>]
        ELSE [err |-> "nil", file |-> LatestLoop(d, files, 1, <<>>, ZeroTime)]

(***************************************************************************)
(* The locator alone, on a directory of names and a pair of date texts.    *)
(***************************************************************************)

\* The largest number of entries of a directory.
MaxDirFiles == 2

\* A directory entry that can be opened and holds no line.
PlainEntry(name) ==
    [name |-> name, statOk |-> TRUE, modTime |-> 0, openOk |-> TRUE, lines |-> <<>>]

Compact(y, m, d) == Pad(y, 4) \o Pad(m, 2) \o Pad(d, 2)

DateText(y, m, d) == Pad(y, 4) \o <<"-">> \o Pad(m, 2) \o <<"-">> \o Pad(d, 2)

FileDays == {<<2024, 1, 10>>, <<2024, 1, 12>>, <<2024, 1, 14>>, <<2023, 12, 31>>}

\* Dated names, a dated name with a longer stem, names too short for a
\* date, names whose date does not parse, and a name outside the pattern.
RangeNames ==
    { LogName(Compact(d[1], d[2], d[3])) : d \in FileDays }
    \cup { LogName(Compact(2024, 1, 12) \o <<"_", "b">>),
           LogName(<<>>),
           LogName(<<"2", "0", "2", "4", "0", "1">>),
           LogName(<<"2", "0", "2", "4", "0", "1", "1">>),
           LogName(Compact(2024, 13, 1)),
           LogName(<<"2", "0", "2", "4", "0", "1", "1", "x">>),
           <<"g", "y", "m", "-", "d", "a", "t", "a", ".", "j", "s", "o", "n">> }

RangeDirs ==
    { {PlainEntry(n) : n \in S} :
        S \in {S \in SUBSET RangeNames : Cardinality(S) <= MaxDirFiles} }

DateTexts ==
    { DateText(d[1], d[2], d[3]) : d \in FileDays }
    \cup { <<>>,
           Compact(2024, 1, 12),
           <<"2", "0", "2", "4", "-", "1", "-", "1", "2">>,
           DateText(2024, 2, 30),
           Pad(2024, 4) \o <<"/">> \o Pad(1, 2) \o <<"/">> \o Pad(12, 2) }

InitRange ==
    /\ dir \in RangeDirs
    /\ fromDate \in DateTexts
    /\ toDate \in DateTexts
    /\ filteredFiles = NoValue
    /\ latestFile = NoValue
    /\ tzLoaded = TRUE
    /\ sortStable = TRUE
    /\ NormIdle /\ ConvIdle /\ SortIdle /\ PipeIdle

FindInRange ==
    /\ filteredFiles = NoValue
    /\ filteredFiles' = FindCSVFilesInRange(dir, fromDate, toDate)
    /\ UNCHANGED <<envVars, normVars, convVars, sortVars, fromDate, toDate, latestFile, pipeVars>>

NextRange == FindInRange

SpecRange == InitRange /\ [][NextRange]_vars

\* A date text in the form YYYY-MM-DD naming a calendar day, as <<y, m, d>>.
IsDateText(s) ==
    /\ Len(s) = 10
    /\ \A i \in {1, 2, 3, 4, 6, 7, 9, 10} : IsDigit(s[i])
    /\ s[5] = "-" /\ s[8] = "-"
    /\ ValidDate(Num(s, 1, 4), Num(s, 6, 2), Num(s, 9, 2))

YMDOfText(s) == <<Num(s, 1, 4), Num(s, 6, 2), Num(s, 9, 2)>>

\* Whether a name carries a date after the prefix, and that date.
HasEmbeddedDate(name) ==
    /\ Len(name) >= 20
    /\ \A i \in 11..18 : IsDigit(name[i])
    /\ ValidDate(Num(name, 11, 4), Num(name, 15, 2), Num(name, 17, 2))

YMDOfName(name) == <<Num(name, 11, 4), Num(name, 15, 2), Num(name, 17, 2)>>

\* a <= b for calendar days <<y, m, d>>.
DayLeq(a, b) ==
    \/ a[1] < b[1]
    \/ a[1] = b[1] /\ a[2] < b[2]
    \/ a[1] = b[1] /\ a[2] = b[2] /\ a[3] <= b[3]

\* The candidate files whose embedded date lies in [from, to].
FilesInRange ==
    { n \in {e.name : e \in dir} :
        /\ MatchesPattern(n)
        /\ HasEmbeddedDate(n)
        /\ DayLeq(YMDOfText(fromDate), YMDOfName(n))
        /\ DayLeq(YMDOfName(n), YMDOfText(toDate)) }

ReturnsExactlyFilesInRange ==
    /\ filteredFiles.err = "nil"
    /\ {filteredFiles.files[i] : i \in 1..Len(filteredFiles.files)} = FilesInRange
    /\ Len(filteredFiles.files) = Cardinality(FilesInRange)

\* C3 as stated: with valid dates findCSVFilesInRange returns exactly the
\* candidate files dated within [from, to], both ends included, and an empty
\* list, not an error, when no candidate is in range.
C3_RangeExactAlways ==
    (filteredFiles # NoValue /\ IsDateText(fromDate) /\ IsDateText(toDate))
        => ReturnsExactlyFilesInRange

\* C3 as amended: the same, when at least one file matches the pattern (with
\* none matching the call fails with NotFound).
C3_RangeExact ==
    (filteredFiles # NoValue /\ IsDateText(fromDate) /\ IsDateText(toDate))
        => IF \E e \in dir : MatchesPattern(e.name)
             THEN ReturnsExactlyFilesInRange
             ELSE filteredFiles.err = "NotFound"

\* A call that kept the file dated on the `to` day and left another out.
C3_Witness ==
    /\ filteredFiles # NoValue
    /\ filteredFiles.err = "nil"
    /\ fromDate # toDate
    /\ \E i \in 1..Len(filteredFiles.files) :
          /\ HasEmbeddedDate(filteredFiles.files[i])
          /\ YMDOfName(filteredFiles.files[i]) = YMDOfText(toDate)
    /\ Len(filteredFiles.files) < Len(Glob(dir))

\* C4: findCSVFilesInRange fails with InvalidDateFormat whenever from or to
\* does not parse as YYYY-MM-DD, whatever the files in the directory.
C4_InvalidDateAlways ==
    (filteredFiles # NoValue /\ (~IsDateText(fromDate) \/ ~IsDateText(toDate)))
        => filteredFiles.err = "InvalidDateFormat"

(***************************************************************************)
(* findLatestCSV alone, on a directory whose entries differ in             *)
(* modification time and in whether os.Stat succeeds on them (it fails on  *)
(* a dangling symbolic link, or on a file removed after the listing).      *)
(***************************************************************************)

\* The largest modification time, in ticks.
MaxModTime == 2

LatestNames ==
    { LogName(Compact(d[1], d[2], d[3])) : d \in {<<2024, 1, 10>>, <<2024, 1, 12>>} }
    \cup { LogName(<<"o", "l", "d">>),
           <<"g", "y", "m", "-", "d", "a", "t", "a", ".", "j", "s", "o", "n">> }

LatestDirs ==
    UNION { { {[PlainEntry(n) EXCEPT !.statOk = f[n][1], !.modTime = f[n][2]] : n \in S} :
                f \in [S -> BOOLEAN \X (0..MaxModTime)] } :
            S \in {S \in SUBSET LatestNames : Cardinality(S) <= MaxDirFiles} }

InitLatest ==
    /\ dir \in LatestDirs
    /\ fromDate = <<>>
    /\ toDate = <<>>
    /\ filteredFiles = NoValue
    /\ latestFile = NoValue
    /\ tzLoaded = TRUE
    /\ sortStable = TRUE
    /\ NormIdle /\ ConvIdle /\ SortIdle /\ PipeIdle

FindLatest ==
    /\ latestFile = NoValue
    /\ latestFile' = FindLatestCSV(dir)
    /\ UNCHANGED <<envVars, normVars, convVars, sortVars, fromDate, toDate, filteredFiles, pipeVars>>

NextLatest == FindLatest

SpecLatest == InitLatest /\ [][NextLatest]_vars

\* C5: findLatestCSV fails with NotFound when no file matches the pattern;
\* otherwise it succeeds with one of the matching files, one whose
\* modification time is at least that of every other matching file, and
\* never with an empty name.
C5_LatestOrNotFound ==
    latestFile # NoValue =>
        IF ~\E e \in dir : MatchesPattern(e.name)
          THEN latestFile.err = "NotFound"
          ELSE /\ latestFile.err = "nil"
               /\ latestFile.file # <<>>
               /\ \E e \in dir :
                     /\ e.name = latestFile.file
                     /\ MatchesPattern(e.name)
                     /\ \A o \in dir :
                           (MatchesPattern(o.name) /\ o.statOk) => o.modTime <= e.modTime

(***************************************************************************)
(* convertCSVFilesToJSON alone, on a directory of one or two log files     *)
(* whose rows are drawn from a set of rows of every kind the row loop      *)
(* tells apart.                                                            *)
(***************************************************************************)

\* The largest number of data rows in the directory, all files together.
MaxRows == 3

StandardHeader ==
    <<ColTimestamp, ColLocationId, ColLocationName, ColUserCount, ColStatus, ColResponse>>

PermutedHeader == <<ColStatus, ColUserCount, ColLocationName, ColTimestamp>>

NoStatusHeader == <<ColTimestamp, ColLocationId, ColLocationName, ColUserCount>>

T1 == <<"T", "1">>

Hipodroom == <<"H", "i", "p", "o", "d", "r", "o", "o", "m">>

Row(ts, loc, count, status) ==
    [timestamp |-> ts, locationName |-> loc, userCount |-> count,
     status |-> status, short |-> FALSE, err |-> FALSE]

\* Two samples of one location in one 2-minute bucket, one of an earlier
\* bucket, one of another location; the collector's error row and its
\* parse_error row; a row with a cut timestamp; a row cut short; a row the
\* reader fails on.
LogicalRows ==
    { Row(Stamp(2024, 1, 1, 10, 3, 47), T1, <<"5">>, Success),
      Row(Stamp(2024, 1, 1, 10, 2, 10), T1, <<"7">>, Success),
      Row(Stamp(2024, 1, 1, 9, 0, 0), T1, <<"1", "2">>, Success),
      Row(Stamp(2024, 1, 1, 10, 3, 47), Hipodroom, <<"5">>, Success),
      Row(Stamp(2024, 1, 1, 10, 4, 0), T1, <<"e", "r", "r", "o", "r">>, <<"5", "0", "0">>),
      Row(Stamp(2024, 1, 1, 10, 6, 0), T1,
          <<"p", "a", "r", "s", "e", "_", "e", "r", "r", "o", "r">>, Success),
      Row(SubSeq(Stamp(2024, 1, 1, 10, 8, 0), 1, 16), T1, <<"9">>, Success),
      [Row(Stamp(2024, 1, 1, 10, 10, 0), T1, <<"4">>, Success) EXCEPT !.short = TRUE],
      [Row(<<>>, T1, <<>>, Success) EXCEPT !.err = TRUE] }

FieldOf(row, col) ==
    IF col = ColTimestamp THEN row.timestamp
    ELSE IF col = ColLocationName THEN row.locationName
    ELSE IF col = ColUserCount THEN row.userCount
    ELSE IF col = ColStatus THEN row.status
    ELSE IF col = ColLocationId THEN <<"1">>
    ELSE <<"o", "k">>

\* The CSV record of a row under a header; a short row has three fields.
Render(header, row) ==
    IF row.err THEN ReadError
    ELSE Record(SubSeq([i \in 1..Len(header) |-> FieldOf(row, header[i])],
                       1, IF row.short THEN 3 ELSE Len(header)))

\* The first log file has either header, the second the collector's.
HeadersOf(name) ==
    IF name = LogName(Compact(2024, 1, 1))
      THEN {StandardHeader, PermutedHeader} ELSE {StandardHeader}

FilesWithRows(name, k) ==
    { [PlainEntry(name) EXCEPT
          !.lines = <<Record(h)>> \o [i \in 1..k |-> Render(h, rows[i])]] :
        h \in HeadersOf(name), rows \in [1..k -> LogicalRows] }

\* A file that cannot be opened, an empty file, a file without the status
\* column.
BadFiles(name) ==
    { [PlainEntry(name) EXCEPT !.openOk = FALSE],
      PlainEntry(name),
      [PlainEntry(name) EXCEPT
          !.lines = <<Record(NoStatusHeader),
                      Record(<<Stamp(2024, 1, 1, 10, 0, 0), <<"1">>, T1, <<"5">> >>)>>] }

FileChoices(name, k) ==
    FilesWithRows(name, k) \cup (IF k = 0 THEN BadFiles(name) ELSE {})

File1 == LogName(Compact(2024, 1, 1))

File2 == LogName(Compact(2024, 1, 2))

\* One log file, or two, with at most MaxRows data rows together.
IsConvertDir(d) ==
    \/ \E k1 \in 0..MaxRows : \E e1 \in FileChoices(File1, k1) : d = {e1}
    \/ \E k1 \in 0..MaxRows : \E k2 \in 0..(MaxRows - k1) :
          \E e1 \in FileChoices(File1, k1) : \E e2 \in FileChoices(File2, k2) :
             d = {e1, e2}

InitConvert ==
    /\ IsConvertDir(dir)
    /\ csvFiles = Glob(dir)
    /\ datasets = NoValue
    /\ tzLoaded = TRUE
    /\ sortStable = FALSE
    /\ NormIdle /\ LocIdle /\ SortIdle /\ PipeIdle

Convert ==
    /\ datasets = NoValue
    /\ LET r == ProcessFiles(dir, csvFiles, 1, <<>>, tzLoaded)
       IN  \E order \in RangeOrders(DOMAIN r.data) :
              datasets' = Aggregate(r, order, sortStable)
    /\ UNCHANGED <<envVars, normVars, locVars, sortVars, csvFiles, pipeVars>>

NextConvert == Convert

SpecConvert == InitConvert /\ [][NextConvert]_vars

\* The data rows of the selected files: <<f, i>> is line i of file f.
SelectedRows ==
    { r \in (1..Len(csvFiles)) \X (2..(MaxRows + 2)) :
        /\ \E e \in dir : e.name = csvFiles[r[1]]
        /\ r[2] <= Len(Entry(dir, csvFiles[r[1]]).lines) }

LineOf(r) == Entry(dir, csvFiles[r[1]]).lines[r[2]]

HeaderOf(r) == Entry(dir, csvFiles[r[1]]).lines[1].fields

\* Whether row r has a field in the column of that name, and the field.
HasField(r, col) ==
    /\ ~LineOf(r).err
    /\ ColumnIdx(HeaderOf(r), col) >= 1
    /\ ColumnIdx(HeaderOf(r), col) <= Len(LineOf(r).fields)

FieldAt(r, col) == LineOf(r).fields[ColumnIdx(HeaderOf(r), col)]

\* A text that writes an integer: an optional sign, then digits.
IsIntText(s) ==
    /\ Len(s) >= 1
    /\ IF s[1] \in {"+", "-"}
         THEN Len(s) >= 2 /\ \A i \in 2..Len(s) : IsDigit(s[i])
         ELSE \A i \in 1..Len(s) : IsDigit(s[i])

RECURSIVE DigitsValue(_)
DigitsValue(s) ==
    IF s = <<>> THEN 0
    ELSE 10 * DigitsValue(SubSeq(s, 1, Len(s) - 1)) + DigitVal(s[Len(s)])

IntOfText(s) ==
    IF s[1] = "-" THEN -DigitsValue(Tail(s))
    ELSE IF s[1] = "+" THEN DigitsValue(Tail(s))
    ELSE DigitsValue(s)

\* A row whose status is success and whose user count is an integer.
IsSuccessRow(r) ==
    /\ HasField(r, ColStatus) /\ FieldAt(r, ColStatus) = Success
    /\ HasField(r, ColUserCount) /\ IsIntText(FieldAt(r, ColUserCount))
    /\ HasField(r, ColLocationName)

\* Such a row that also has its timestamp field, which parses.
IsUsableRow(r) ==
    /\ IsSuccessRow(r)
    /\ HasField(r, ColTimestamp)
    /\ ParseTimestamp(FieldAt(r, ColTimestamp)).ok

\* How many points with y = v the Datasets labelled l hold together.
PointsIn(l, v) ==
    Cardinality({ p \in (1..Len(datasets.datasets)) \X (1..MaxRows) :
                    /\ datasets.datasets[p[1]].Label = l
                    /\ p[2] <= Len(datasets.datasets[p[1]].Data)
                    /\ datasets.datasets[p[1]].Data[p[2]].Y = v })

RowLabels == { FieldAt(r, ColLocationName) : r \in {r \in SelectedRows : IsSuccessRow(r)} }

RowValues ==
    { IntOfText(FieldAt(r, ColUserCount)) : r \in {r \in SelectedRows : IsSuccessRow(r)} }

OutLabels == { datasets.datasets[i].Label : i \in 1..Len(datasets.datasets) }

OutValues ==
    UNION { { datasets.datasets[i].Data[j].Y : j \in 1..Len(datasets.datasets[i].Data) } :
            i \in 1..Len(datasets.datasets) }

\* C1 as stated: every data row of every selected file whose status is
\* success and whose user_count parses as an integer is in the output
\* exactly once, as one DataPoint of the Dataset labelled with its
\* location_name, with y the parsed integer.
C1_EverySuccessRowOnce ==
    (datasets # NoValue /\ datasets.err = "nil") =>
        \A l \in RowLabels \cup OutLabels : \A v \in RowValues \cup OutValues :
            PointsIn(l, v) =
                Cardinality({ r \in SelectedRows :
                                /\ IsSuccessRow(r)
                                /\ FieldAt(r, ColLocationName) = l
                                /\ IntOfText(FieldAt(r, ColUserCount)) = v })

\* C1 as amended: when the conversion succeeds, the same of every data row
\* that the reader reads, that has a field in each of the four required
\* columns, whose status is success, whose timestamp parses and whose
\* user_count parses as an integer; the output holds nothing else.
C1_EveryUsableRowOnce ==
    (datasets # NoValue /\ datasets.err = "nil") =>
        \A l \in RowLabels \cup OutLabels : \A v \in RowValues \cup OutValues :
            PointsIn(l, v) =
                Cardinality({ r \in SelectedRows :
                                /\ IsUsableRow(r)
                                /\ FieldAt(r, ColLocationName) = l
                                /\ IntOfText(FieldAt(r, ColUserCount)) = v })

\* A conversion of two files that both hold a usable row, one of them also a
\* success row that is not usable.
C1_Witness ==
    /\ datasets # NoValue
    /\ datasets.err = "nil"
    /\ Len(csvFiles) = 2
    /\ \A f \in 1..2 : \E r \in SelectedRows : r[1] = f /\ IsUsableRow(r)
    /\ \E r \in SelectedRows : IsSuccessRow(r) /\ ~IsUsableRow(r)

\* C2: in every result of convertCSVFilesToJSON the DataPoints of each
\* Dataset are in non-decreasing order of x, the Datasets are in
\* non-decreasing order of label, and there is exactly one Dataset for each
\* location name seen in a surviving row.
C2_Ordered ==
    (datasets # NoValue /\ datasets.err = "nil") =>
        LET ds == datasets.datasets
        IN  /\ \A i \in 1..Len(ds) : \A j \in 1..(Len(ds[i].Data) - 1) :
                  ~StrLess(ds[i].Data[j + 1].X, ds[i].Data[j].X)
            /\ \A i \in 1..(Len(ds) - 1) : ~StrLess(ds[i + 1].Label, ds[i].Label)
            /\ \A i \in 1..Len(ds) : \A j \in 1..Len(ds) : ds[i].Label = ds[j].Label => i = j
            /\ OutLabels =
                  { FieldAt(r, ColLocationName) : r \in {r \in SelectedRows : IsUsableRow(r)} }

\* A result with two Datasets, one of which holds points of two buckets that
\* the files held in descending order.
C2_Witness ==
    /\ datasets # NoValue
    /\ datasets.err = "nil"
    /\ Len(datasets.datasets) = 2
    /\ \E i \in 1..2 :
          LET before == ProcessFiles(dir, csvFiles, 1, <<>>, tzLoaded).data[datasets.datasets[i].Label]
          IN  /\ Len(before) >= 2
              /\ StrLess(before[2].X, before[1].X)
              /\ before # datasets.datasets[i].Data

(***************************************************************************)
(* The per-location sort alone, on a slice of points of two buckets, each  *)
(* point carrying its position in the slice as y.                          *)
(***************************************************************************)

\* The largest number of points of the slice.
MaxPoints == 13

BucketXs ==
    { IsoTimestamp(ParseTimestamp(Stamp(2024, 1, 1, 10, 3, 47)), TRUE),
      IsoTimestamp(ParseTimestamp(Stamp(2024, 1, 1, 9, 0, 0)), TRUE) }

InitSort ==
    /\ \E n \in 0..MaxPoints : \E xs \in [1..n -> BucketXs] :
          dataPoints = [i \in 1..n |-> [X |-> xs[i], Y |-> i]]
    /\ sortStable \in BOOLEAN
    /\ sortedPoints = NoValue
    /\ dir = {}
    /\ tzLoaded = TRUE
    /\ NormIdle /\ LocIdle /\ ConvIdle /\ PipeIdle

\* Lines 125-127 of convertCSVFilesToJSON on one location's points.
SortPoints ==
    /\ sortedPoints = NoValue
    /\ sortedPoints' = [points |-> SortDataPoints(dataPoints, sortStable)]
    /\ UNCHANGED <<envVars, normVars, locVars, convVars, dataPoints, pipeVars>>

NextSort == SortPoints

SpecSort == InitSort /\ [][NextSort]_vars

\* C9: the per-location sort is stable: two DataPoints of a location with
\* equal x are in the output in the order they were appended in (the order
\* of the files, and of the rows within a file).
C9_TiesKeepOrder ==
    sortedPoints # NoValue =>
        \A i \in 1..Len(sortedPoints.points) : \A j \in 1..Len(sortedPoints.points) :
            (i < j /\ sortedPoints.points[i].X = sortedPoints.points[j].X)
                => sortedPoints.points[i].Y < sortedPoints.points[j].Y

(***************************************************************************)
(* json.Encoder with SetIndent("", "  ") on a []Dataset, as the bytes it   *)
(* writes.  No character of a label or of an x needs escaping.             *)
(***************************************************************************)

Quote == "\""

NewLine == "\n"

Indent(depth) == [i \in 1..(2 * depth) |-> " "]

\* strconv's decimal form of an int.
RECURSIVE Decimal(_)
Decimal(n) ==
    IF n < 10 THEN <<DigitChars[n + 1]>>
    ELSE Append(Decimal(n \div 10), DigitChars[(n % 10) + 1])

Itoa(n) == IF n < 0 THEN <<"-">> \o Decimal(-n) ELSE Decimal(n)

JSONString(s) == <<Quote>> \o s \o <<Quote>>

KeyX == <<"x">>

KeyY == <<"y">>

KeyLabel == <<"l", "a", "b", "e", "l">>

KeyData == <<"d", "a", "t", "a">>

\* The items, each on its own line, separated by commas.
RECURSIVE JoinLines(_, _)
JoinLines(items, i) ==
    IF i > Len(items) THEN <<>>
    ELSE IF i = Len(items) THEN items[i]
    ELSE items[i] \o <<",", NewLine>> \o JoinLines(items, i + 1)

Member(depth, key, value) == Indent(depth) \o JSONString(key) \o <<":", " ">> \o value

Object(depth, members) ==
    <<"{", NewLine>> \o JoinLines(members, 1) \o <<NewLine>> \o Indent(depth) \o <<"}">>

Array(depth, items) ==
    IF Len(items) = 0 THEN <<"[", "]">>
    ELSE <<"[", NewLine>>
         \o JoinLines([i \in 1..Len(items) |-> Indent(depth + 1) \o items[i]], 1)
         \o <<NewLine>> \o Indent(depth) \o <<"]">>

EncodeDataPoint(p, depth) ==
    Object(depth, <<Member(depth + 1, KeyX, JSONString(p.X)),
                    Member(depth + 1, KeyY, Itoa(p.Y))>>)

EncodeDataset(ds, depth) ==
    Object(depth,
           <<Member(depth + 1, KeyLabel, JSONString(ds.Label)),
             Member(depth + 1, KeyData,
                    Array(depth + 1, [i \in 1..Len(ds.Data) |->
                                         EncodeDataPoint(ds.Data[i], depth + 2)]))>>)

\* encoder.Encode(datasets): a nil slice is written as null; a newline ends
\* the value.
Encode(dsets) ==
    (IF Len(dsets) = 0 THEN <<"n", "u", "l", "l">>
     ELSE Array(0, [i \in 1..Len(dsets) |-> EncodeDataset(dsets[i], 1)]))
    \o <<NewLine>>

(***************************************************************************)
(* The snapshot file gym-data.json and the request handlers.  Each request *)
(* is served by its own goroutine; a handler locates and converts the logs *)
(* (reads only), then creates the snapshot, then writes it, and other      *)
(* handlers may run between these steps.                                   *)
(***************************************************************************)

NoFile == [exists |-> FALSE, bytes |-> <<>>]

\* An open of the snapshot that leaves its content in place.
OpenKeepingContent(file) == [exists |-> TRUE, bytes |-> file.bytes]

\* os.Create("gym-data.json"): the file is created, or truncated.
OsCreate(file) == [exists |-> TRUE, bytes |-> <<>>]

\* A write of `data` through a descriptor at `offset`: the bytes replace
\* those at the offset and the file keeps what lies beyond them.
WriteAt(file, offset, data) ==
    [exists |-> TRUE,
     bytes  |-> SubSeq(file.bytes, 1, offset) \o data
                \o SubSeq(file.bytes, offset + Len(data) + 1, Len(file.bytes))]

Handlers == {1, 2}

\* The largest number of requests received in a behaviour.
MaxRequests == 3

PathLatest == "/generate-data"

PathRange == "/generate-data-range"

Methods == {"POST", "GET", "OPTIONS"}

File3 == LogName(Compact(2024, 1, 3))

\* The days of the three log files, and a date text that does not parse.
PipeDates ==
    {DateText(2024, 1, 1), DateText(2024, 1, 2), DateText(2024, 1, 3), <<>>}

\* A request: its path and method and, for the range path, whether its body
\* decodes and the from and to of the body.
Requests ==
    { [path |-> p, method |-> m, bodyOk |-> FALSE, from |-> <<>>, to |-> <<>>] :
        p \in {PathLatest, PathRange}, m \in Methods }
    \cup { [path |-> PathRange, method |-> "POST", bodyOk |-> TRUE,
            from |-> f, to |-> t] : f \in PipeDates, t \in PipeDates }

\* A handler's local state: where it is, the files it selected, the
\* datasets it computed, the offset of its descriptor, its response, and
\* the snapshot as it was when the request arrived.
Idle ==
    [pc |-> "idle", path |-> "", csvFiles |-> <<>>, datasets |-> <<>>,
     offset |-> 0, status |-> 0, success |-> FALSE, error |-> "",
     prior |-> NoFile]

Failed(h, status, error) ==
    [h EXCEPT !.pc = "responded", !.status = status, !.error = error]

\* csvFile, err := findLatestCSV()
FoundLatest(r) ==
    [err |-> r.err, files |-> IF r.err = "nil" THEN <<r.file>> ELSE <<>>]

\* csvFiles, err := findCSVFilesInRange(...), then the test len(csvFiles) == 0
FoundInRange(r) ==
    IF r.err = "nil" /\ Len(r.files) = 0
      THEN [err |-> "NoFilesInRange", files |-> <<>>]
      ELSE r

Find(req, d) ==
    IF req.path = PathLatest THEN FoundLatest(FindLatestCSV(d))
    ELSE FoundInRange(FindCSVFilesInRange(d, req.from, req.to))

\* A handler from its entry to the return of the conversion: `found` is
\* what the locator returned, `conv` what the conversion returned, `file`
\* the snapshot at that time.
Serve(req, found, conv, file) ==
    LET h == [Idle EXCEPT !.path = req.path, !.prior = file]
    IN  IF req.method = "OPTIONS"
          THEN [h EXCEPT !.pc = "responded", !.status = 200]
        ELSE IF req.method # "POST" THEN Failed(h, 405, "MethodNotAllowed")
        ELSE IF req.path = PathRange /\ ~req.bodyOk
          THEN Failed(h, 400, "InvalidRequestBody")
        ELSE IF found.err = "NoFilesInRange" THEN Failed(h, 404, found.err)
        ELSE IF found.err # "nil" THEN Failed(h, 500, found.err)
        ELSE IF conv.err # "nil"
          THEN Failed([h EXCEPT !.csvFiles = found.files], 500, conv.err)
        ELSE [h EXCEPT !.pc = "converted", !.csvFiles = found.files,
                       !.datasets = conv.datasets]

Log1 ==
    [PlainEntry(File1) EXCEPT
        !.lines = <<Record(StandardHeader),
                    Render(StandardHeader,
                           Row(Stamp(2024, 1, 1, 10, 3, 47), T1, <<"5">>, Success)),
                    Render(StandardHeader,
                           Row(Stamp(2024, 1, 1, 10, 3, 47), Hipodroom, <<"5">>, Success))>>]

Log2 ==
    [PlainEntry(File2) EXCEPT
        !.modTime = 1,
        !.lines = <<Record(StandardHeader),
                    Render(StandardHeader,
                           Row(Stamp(2024, 1, 2, 10, 0, 0), T1, <<"7">>, Success))>>]

\* The third log: one whose only row has no count, or a bad file.
Log3Choices ==
    { [PlainEntry(File3) EXCEPT
          !.lines = <<Record(StandardHeader),
                      Render(StandardHeader,
                             Row(Stamp(2024, 1, 3, 10, 0, 0), T1,
                                 <<"e", "r", "r", "o", "r">>, Success))>>] }
    \cup BadFiles(File3)

\* No log at all, or the first two logs, either of them the newer, alone or
\* with a third log newer than both.
PipeDirs ==
    {{}} \cup
    { {[Log1 EXCEPT !.modTime = a], Log2} \cup third :
        a \in {0, 2},
        third \in {{}} \cup {{[e EXCEPT !.modTime = 3]} : e \in Log3Choices} }

InitPipe ==
    /\ dir \in PipeDirs
    /\ snapshot = NoFile
    /\ handler = [h \in Handlers |-> Idle]
    /\ issued = 0
    /\ tzLoaded = TRUE
    /\ sortStable = FALSE
    /\ NormIdle /\ LocIdle /\ ConvIdle /\ SortIdle

\* A request arrives and its handler runs up to the end of the conversion.
Receive(h) ==
    /\ handler[h].pc = "idle"
    /\ issued < MaxRequests
    /\ \E req \in Requests : \E found \in {Find(req, dir)} :
          \E r \in {ProcessFiles(dir, found.files, 1, <<>>, tzLoaded)} :
             \E order \in RangeOrders(DOMAIN r.data) :
                handler' = [handler EXCEPT
                    ![h] = Serve(req, found, Aggregate(r, order, sortStable), snapshot)]
    /\ issued' = issued + 1
    /\ UNCHANGED <<snapshot, envVars, normVars, locVars, convVars, sortVars>>

\* jsonFile, err := os.Create("gym-data.json") succeeds.
CreateFile(h) ==
    /\ handler[h].pc = "converted"
    /\ snapshot' = OsCreate(snapshot)
    /\ handler' = [handler EXCEPT ![h].pc = "created", ![h].offset = 0]
    /\ UNCHANGED <<issued, envVars, normVars, locVars, convVars, sortVars>>

\* os.Create fails.
CreateFails(h) ==
    /\ handler[h].pc = "converted"
    /\ handler' = [handler EXCEPT ![h] = Failed(@, 500, "CreateFailed")]
    /\ UNCHANGED <<snapshot, issued, envVars, normVars, locVars, convVars, sortVars>>

\* encoder.Encode(datasets) writes the encoding and the handler answers.
WriteFile(h) ==
    /\ handler[h].pc = "created"
    /\ snapshot' = WriteAt(snapshot, handler[h].offset, Encode(handler[h].datasets))
    /\ handler' = [handler EXCEPT
          ![h].pc = "responded", ![h].status = 200, ![h].success = TRUE,
          ![h].offset = @ + Len(Encode(handler[h].datasets))]
    /\ UNCHANGED <<issued, envVars, normVars, locVars, convVars, sortVars>>

\* encoder.Encode fails before a byte is written.
WriteFails(h) ==
    /\ handler[h].pc = "created"
    /\ handler' = [handler EXCEPT ![h] = Failed(@, 500, "WriteFailed")]
    /\ UNCHANGED <<snapshot, issued, envVars, normVars, locVars, convVars, sortVars>>

\* The handler returns (and its deferred Close runs).
Return(h) ==
    /\ handler[h].pc = "responded"
    /\ handler' = [handler EXCEPT ![h] = Idle]
    /\ UNCHANGED <<snapshot, issued, envVars, normVars, locVars, convVars, sortVars>>

Step(h) ==
    \/ Receive(h)
    \/ CreateFile(h)
    \/ CreateFails(h)
    \/ WriteFile(h)
    \/ WriteFails(h)
    \/ Return(h)

\* Requests served concurrently.
Next == \E h \in Handlers : Step(h)

Spec == InitPipe /\ [][Next]_vars

\* Requests served one at a time.
NextSeq == Step(1)

SpecSeq == InitPipe /\ [][NextSeq]_vars

Succeeded(h) == handler[h].pc = "responded" /\ handler[h].success

Selected(h) == {handler[h].csvFiles[i] : i \in 1..Len(handler[h].csvFiles)}

\* The datasets of a file loop's result, the map ranged over in some fixed
\* order.
DatasetsOf(r) ==
    Aggregate(r, CHOOSE order \in RangeOrders(DOMAIN r.data) : TRUE, sortStable).datasets

\* The snapshot that the set `names` of logs of the directory determines.
SnapshotOf(d, names) ==
    Encode(DatasetsOf(ProcessFiles(d, SortNames(names), 1, <<>>, tzLoaded)))

\* C6: with requests served one at a time, after a successful regeneration
\* the snapshot's content is a function of the set of files the request
\* selected and of their content alone: it does not depend on what the
\* snapshot held before nor on the order the locations were visited in (so
\* repeating a request over unchanged files leaves the same bytes).
C6_SnapshotOfFileSet ==
    \A h \in Handlers :
        Succeeded(h) => snapshot.bytes = SnapshotOf(dir, Selected(h))

\* A regeneration that produced a dataset has succeeded where the snapshot
\* held a longer content before.
C6_Witness ==
    \E h \in Handlers :
        /\ Succeeded(h)
        /\ Len(handler[h].csvFiles) >= 1
        /\ handler[h].prior.exists
        /\ Len(handler[h].prior.bytes) > Len(snapshot.bytes)
        /\ Len(handler[h].datasets) >= 1

RequiredColumns == {ColTimestamp, ColLocationName, ColUserCount, ColStatus}

\* The file can be opened, its header can be read and names the four
\* required columns.
Readable(d, name) ==
    \E e \in d :
        /\ e.name = name
        /\ e.openOk
        /\ Len(e.lines) >= 1
        /\ ~e.lines[1].err
        /\ \A c \in RequiredColumns :
              \E i \in 1..Len(e.lines[1].fields) : e.lines[1].fields[i] = c

ConversionErrors == {"IOError", "MalformedHeader", "MissingColumns"}

\* C7: a request gets past the conversion only if it selected at least one
\* file and every selected file is readable; and a request that failed
\* because a selected file is not, or because its range selected no file,
\* has no datasets and has left the snapshot as it was when it arrived.
C7_AllOrNothing ==
    \A h \in Handlers :
        /\ (handler[h].pc \in {"converted", "created"} \/ Succeeded(h))
              => /\ handler[h].csvFiles # <<>>
                 /\ \A f \in Selected(h) : Readable(dir, f)
        /\ (handler[h].pc = "responded"
              /\ handler[h].error \in ConversionErrors \cup {"NoFilesInRange"})
              => /\ ~handler[h].success
                 /\ handler[h].datasets = <<>>
                 /\ snapshot = handler[h].prior

\* A request over a readable file followed by a bad one has failed where
\* the snapshot held an earlier regeneration's content.
C7_Witness ==
    \E h \in Handlers :
        /\ handler[h].pc = "responded"
        /\ handler[h].error \in ConversionErrors
        /\ Len(handler[h].csvFiles) >= 2
        /\ Readable(dir, handler[h].csvFiles[1])
        /\ snapshot.exists
        /\ Len(snapshot.bytes) > 0

\* C8: when two concurrent requests have both completed successfully, the
\* snapshot holds the complete output of one of them, never a mixture of
\* bytes of both.
C8_FinalIsOneOutput ==
    (\A h \in Handlers : Succeeded(h))
        => \E h \in Handlers : snapshot.bytes = Encode(handler[h].datasets)

=============================================================================
